---- MODULE Spec2Model ----
(***************************************************************************)
(* Model of graphite_beacon/core.py: the Reactor (configuration loading,   *)
(* reinit, reset cycle, notify) and merge_configurations.                  *)
(*                                                                         *)
(* Python lists and dicts are objects with identity that the code mutates  *)
(* in place and shares between containers, so they live in a heap:         *)
(* a sequence of objects addressed by reference.  A value is None, a       *)
(* scalar, or a reference.  "Trees" are the by-value view of a value.      *)
(***************************************************************************)
EXTENDS Naturals, Integers, Sequences, FiniteSets, TLC

\* ------------------------------------------------------------------ bounds
MaxLen == 1
MaxScalar == 1

\* ------------------------------------------------------------ values, trees
\* Values held in variables and containers.
VNone == [t |-> "none", s |-> "", r |-> 0]
VStr(x) == [t |-> "s", s |-> x, r |-> 0]
VInt(n) == [t |-> "i", s |-> "", r |-> n]
VRef(n) == [t |-> "ref", s |-> "", r |-> n]

\* Heap objects.
ListObj(items) == [t |-> "list", items |-> items, m |-> <<>>]
DictObj(m) == [t |-> "dict", items |-> <<>>, m |-> m]

\* Trees: configuration data by value.
TNone == [t |-> "none", s |-> "", r |-> 0, items |-> <<>>, m |-> <<>>]
TStr(x) == [t |-> "s", s |-> x, r |-> 0, items |-> <<>>, m |-> <<>>]
TInt(n) == [t |-> "i", s |-> "", r |-> n, items |-> <<>>, m |-> <<>>]
TList(items) == [t |-> "list", s |-> "", r |-> 0, items |-> items, m |-> <<>>]
TDict(m) == [t |-> "dict", s |-> "", r |-> 0, items |-> <<>>, m |-> m]

IsLeafTree(x) == x.t \in {"none", "s", "i"}

\* A finite map written as a set of <<key, value>> pairs.
MapOf(pairs) == [k \in {p[1] : p \in pairs} |-> (CHOOSE p \in pairs : p[1] = k)[2]]

\* The keys of a set in the order of the sequence ord.
RECURSIVE KeysInOrder(_, _)
KeysInOrder(keys, ord) ==
    IF ord = <<>> THEN <<>>
    ELSE IF Head(ord) \in keys THEN <<Head(ord)>> \o KeysInOrder(keys, Tail(ord))
    ELSE KeysInOrder(keys, Tail(ord))

RECURSIVE SetToSeq(_)
SetToSeq(S) ==
    IF S = {} THEN <<>>
    ELSE LET x == CHOOSE y \in S : TRUE IN <<x>> \o SetToSeq(S \ {x})

Reverse(sq) == [i \in 1..Len(sq) |-> sq[Len(sq) + 1 - i]]

\* ---------------------------------------------------------------- the heap
IsListVal(h, v) == v.t = "ref" /\ h[v.r].t = "list"
IsDictVal(h, v) == v.t = "ref" /\ h[v.r].t = "dict"

\* Building the objects of a tree (what yaml.load, or a literal, constructs).
\* a new object: [h, v], v the reference to it
New(h, obj) == [h |-> Append(h, obj), v |-> VRef(Len(h) + 1)]
\* m with m[k] = v
MapWith(m, k, v) == [x \in DOMAIN m \cup {k} |-> IF x = k THEN v ELSE m[x]]

RECURSIVE Alloc(_, _)
RECURSIVE AllocSeq(_, _, _)
RECURSIVE AllocMap(_, _, _, _)
AllocSeqNext(r, rest, acc) == AllocSeq(r.h, rest, Append(acc, r.v))
AllocSeq(h, items, acc) ==
    IF items = <<>> THEN New(h, ListObj(acc))
    ELSE AllocSeqNext(Alloc(h, Head(items)), Tail(items), acc)
AllocMapNext(r, m, k, rest, acc) == AllocMap(r.h, m, rest, MapWith(acc, k, r.v))
AllocMap(h, m, keys, acc) ==
    IF keys = <<>> THEN New(h, DictObj(acc))
    ELSE AllocMapNext(Alloc(h, m[Head(keys)]), m, Head(keys), Tail(keys), acc)
Alloc(h, tree) ==
    IF tree.t = "none" THEN [h |-> h, v |-> VNone]
    ELSE IF tree.t = "s" THEN [h |-> h, v |-> VStr(tree.s)]
    ELSE IF tree.t = "i" THEN [h |-> h, v |-> VInt(tree.r)]
    ELSE IF tree.t = "list" THEN AllocSeq(h, tree.items, <<>>)
    ELSE AllocMap(h, tree.m, SetToSeq(DOMAIN tree.m), <<>>)

\* The by-value view of a value.
RECURSIVE Snapshot(_, _)
Snapshot(h, v) ==
    IF v.t = "none" THEN TNone
    ELSE IF v.t = "s" THEN TStr(v.s)
    ELSE IF v.t = "i" THEN TInt(v.r)
    ELSE LET o == h[v.r]
         IN IF o.t = "list"
            THEN TList([i \in 1..Len(o.items) |-> Snapshot(h, o.items[i])])
            ELSE TDict([k \in DOMAIN o.m |-> Snapshot(h, o.m[k])])

\* a[key] = v on a dict object
DictSet(h, ref, key, v) == [h EXCEPT ![ref] = DictObj(MapWith(h[ref].m, key, v))]
\* del a[key]
DictDel(h, ref, key) ==
    [h EXCEPT ![ref] = DictObj([x \in DOMAIN h[ref].m \ {key} |-> h[ref].m[x]])]

\* ------------------------------------------------------ merge_configurations
\* `a is None or isinstance(a, str) or ... int ... float` (bool is an int)
IsPrimitive(v) == v.t \in {"none", "s", "i"}

\* a mutant of MergeList: a list is appended as one element
MergeListAppendsOnly(h, a, b) ==
    [h |-> [h EXCEPT ![a.r] = ListObj(Append(h[a.r].items, b))], res |-> a, err |-> ""]

\* the list branch: a.extend(b) or a.append(b), in place
MergeList(h, a, b) ==
    IF IsListVal(h, b)
    THEN [h |-> [h EXCEPT ![a.r] = ListObj(h[a.r].items \o h[b.r].items)],
          res |-> a, err |-> ""]
    ELSE [h |-> [h EXCEPT ![a.r] = ListObj(Append(h[a.r].items, b))],
          res |-> a, err |-> ""]

\* Merges b into a, in place, and returns the merged value.  ord is the
\* iteration order of `for key in b`, which Python leaves unspecified.
RECURSIVE merge_configurations(_, _, _, _)
RECURSIVE MergeKeys(_, _, _, _, _)
\* a[key] = <the value r the recursive merge returned>, unless it raised
MergeKeyAssign(r, a, b, key, rest, ord) ==
    IF r.err # "" THEN r
    ELSE MergeKeys(DictSet(r.h, a.r, key, r.res), a, b, rest, ord)
\* `for key in b`, over the keys still to visit
MergeKeys(h, a, b, keys, ord) ==
    IF keys = <<>> THEN [h |-> h, res |-> a, err |-> ""]
    ELSE IF Head(keys) \in DOMAIN h[a.r].m
         THEN MergeKeyAssign(
                  merge_configurations(h, h[a.r].m[Head(keys)], h[b.r].m[Head(keys)], ord),
                  a, b, Head(keys), Tail(keys), ord)
         ELSE MergeKeys(DictSet(h, a.r, Head(keys), h[b.r].m[Head(keys)]),
                        a, b, Tail(keys), ord)
merge_configurations(h, a, b, ord) ==
    IF IsPrimitive(a) THEN [h |-> h, res |-> b, err |-> ""]
    ELSE IF IsListVal(h, a) THEN MergeList(h, a, b)
    ELSE IF IsDictVal(h, b)
         THEN MergeKeys(h, a, b, KeysInOrder(DOMAIN h[b.r].m, ord), ord)
         ELSE [h |-> h, res |-> a, err |-> "ConfigMergeError"]

\* ============================================================== the Reactor
\* Reactor.defaults, the class attribute
ClassDefaults ==
    TDict(MapOf({
        <<"auth_password", TNone>>,
        <<"auth_username", TNone>>,
        <<"config", TStr("config.json")>>,
        <<"critical_handlers", TList(<<TStr("log")>>)>>,
        <<"debug", TInt(0)>>,
        <<"format", TStr("short")>>,
        <<"graphite_url", TStr("http://localhost")>>,
        <<"history_size", TStr("1day")>>,
        <<"interval", TStr("10minute")>>,
        <<"logging", TStr("info")>>,
        <<"method", TStr("average")>>,
        <<"normal_handlers", TList(<<TStr("log")>>)>>,
        <<"pidfile", TNone>>,
        <<"prefix", TStr("[BEACON]")>>,
        <<"repeat_interval", TStr("2hour")>>,
        <<"request_timeout", TInt(20)>>,
        <<"send_initial", TInt(0)>>,
        <<"warning_handlers", TList(<<TStr("log")>>)>> }))

Levels == <<"normal", "warning", "critical">>
HandlersKey(level) ==
    CASE level = "normal" -> "normal_handlers"
      [] level = "warning" -> "warning_handlers"
      [] level = "critical" -> "critical_handlers"

\* The order in which `for key in b` visits the keys of a configuration of
\* the reactor.  No call the reactor model makes has an outcome that depends
\* on it (the merge runs explore both orders).
AllKeys == SetToSeq(DOMAIN ClassDefaults.m \cup {"alerts", "include", "hipchat"})

\* Python truth value
Truthy(h, v) ==
    CASE v.t = "none" -> FALSE
      [] v.t = "s" -> v.s # ""
      [] v.t = "i" -> v.r # 0
      [] OTHER -> IF h[v.r].t = "list" THEN h[v.r].items # <<>>
                  ELSE DOMAIN h[v.r].m # {}

\* d.get(key, None)
DictGet(h, d, key) == IF key \in DOMAIN h[d.r].m THEN h[d.r].m[key] ELSE VNone

\* _LOG_LEVELS, keyed by str(level).upper(); names are written in lower case
LogLevelNames == {"debug", "info", "warn", "warning", "error", "critical"}
LogLevelNumber(name) ==
    CASE name = "debug" -> 10
      [] name = "info" -> 20
      [] name \in {"warn", "warning"} -> 30
      [] name = "error" -> 40
      [] name = "critical" -> 50

\* _get_numeric_log_level: [err, n]
GetNumericLogLevel(level) ==
    IF level.t = "i" THEN [err |-> "", n |-> level.r]
    ELSE IF level.t = "s" /\ level.s \in LogLevelNames
         THEN [err |-> "", n |-> LogLevelNumber(level.s)]
         ELSE [err |-> "ValueError", n |-> 0]

\* ------------------------------------------------------- load_configuration
MaxLoads == 4

\* A file on disk: missing (open raises IOError), garbage (yaml.load raises
\* YAMLError) or ok with the tree its text parses to.
FMissing == [kind |-> "missing", tree |-> TNone]
FGarbage == [kind |-> "garbage", tree |-> TNone]
FOk(tree) == [kind |-> "ok", tree |-> tree]
FileAt(files, path) == IF path \in DOMAIN files THEN files[path] ELSE FMissing

\* a mutant of load_config_file: a file that cannot be read counts as empty
LoadConfigFileLenient(files, path) ==
    IF path = "" THEN [err |-> "", tree |-> TDict(<<>>)]
    ELSE IF FileAt(files, path).kind = "ok"
         THEN [err |-> "", tree |-> FileAt(files, path).tree]
         ELSE [err |-> "", tree |-> TDict(<<>>)]

\* load_config_file: [err, tree]
LoadConfigFile(files, path) ==
    IF path = "" THEN [err |-> "", tree |-> TDict(<<>>)]
    ELSE IF FileAt(files, path).kind = "missing" THEN [err |-> "IOError", tree |-> TNone]
    ELSE IF FileAt(files, path).kind = "garbage" THEN [err |-> "YAMLError", tree |-> TNone]
    ELSE [err |-> "", tree |-> FileAt(files, path).tree]

\* d.pop('include', []): [h, v], v the popped list or a new empty one
PopInclude(h, d) ==
    IF "include" \in DOMAIN h[d.r].m
    THEN [h |-> DictDel(h, d.r, "include"), v |-> h[d.r].m["include"]]
    ELSE New(h, ListObj(<<>>))

\* lst.pop(): [h, v]
PopLast(h, lst) ==
    [h |-> [h EXCEPT ![lst.r] = ListObj(SubSeq(h[lst.r].items, 1, Len(h[lst.r].items) - 1))],
     v |-> h[lst.r].items[Len(h[lst.r].items)]]

\* a mutant of PushReversed: the nested includes are pushed as declared
PushDeclared(h, nested, includes) ==
    [h EXCEPT ![includes.r] = ListObj(h[includes.r].items \o h[nested.r].items)]

\* nested_includes.reverse(); includes.extend(nested_includes)
PushReversed(h, nested, includes) ==
    [h EXCEPT ![nested.r] = ListObj(Reverse(h[nested.r].items)),
              ![includes.r] = ListObj(h[includes.r].items \o Reverse(h[nested.r].items))]

LoadResult(h, configs, err, path, hung) ==
    [h |-> h, configs |-> configs, err |-> err, path |-> path, hung |-> hung]

\* configs.append(config_object); paths records which file each fragment
\* came from
AppendConfig(configs, config_object, path) ==
    [vals |-> Append(configs.vals, config_object), paths |-> Append(configs.paths, path)]

\* The `while len(includes) > 0` loop.  includes is the work list (a list
\* object), configs = [vals, paths] the fragments collected so far, loads
\* the number of files this call may still load.
\* Result: [h, configs, err, path, hung]
RECURSIVE LoadLoop(_, _, _, _, _)
\* nested: what config_object.pop('include', []) gave
LoadNested(nested, config_object, path, includes, configs, files, loads) ==
    IF ~IsListVal(nested.h, nested.v)
    THEN LoadResult(nested.h, configs, "AttributeError", path, FALSE)
    ELSE LoadLoop(PushReversed(nested.h, nested.v, includes), includes,
                  AppendConfig(configs, config_object, path), files, loads - 1)
\* obj: what yaml.load built
LoadParsed(obj, path, includes, configs, files, loads) ==
    IF ~IsDictVal(obj.h, obj.v)
    THEN \* config_object.pop on something that is not a dict: not caught
         LoadResult(obj.h, configs, "AttributeError", path, FALSE)
    ELSE LoadNested(PopInclude(obj.h, obj.v), obj.v, path, includes, configs, files, loads)
\* f: what load_config_file returned or raised
LoadFile(f, h, path, includes, configs, files, loads) ==
    IF f.err # ""
    THEN \* except (IOError, ValueError, YAMLError): raise InvalidConfigError(include_path)
         LoadResult(h, configs, "InvalidConfigError", path, FALSE)
    ELSE LoadParsed(Alloc(h, f.tree), path, includes, configs, files, loads)
\* p: the heap after includes.pop() and the popped include_path
LoadStep(p, includes, configs, files, loads) ==
    IF ~Truthy(p.h, p.v) THEN LoadLoop(p.h, includes, configs, files, loads)
    ELSE IF loads = 0 THEN LoadResult(p.h, configs, "", "", TRUE)
    ELSE LoadFile(LoadConfigFile(files, p.v.s), p.h, p.v.s, includes, configs, files, loads)
LoadLoop(h, includes, configs, files, loads) ==
    IF h[includes.r].items = <<>> THEN LoadResult(h, configs, "", "", FALSE)
    ELSE LoadStep(PopLast(h, includes), includes, configs, files, loads)

\* `for config in configs: merge_configurations(merged_config, config)`
RECURSIVE MergeAll(_, _, _, _)
MergeAllNext(r, merged, rest, ord) ==
    IF r.err # "" THEN r ELSE MergeAll(r.h, merged, rest, ord)
MergeAll(h, merged, configs, ord) ==
    IF configs = <<>> THEN [h |-> h, res |-> merged, err |-> ""]
    ELSE MergeAllNext(merge_configurations(h, merged, Head(configs), ord),
                      merged, Tail(configs), ord)

ConfigResult(h, res, err, path, hung, paths) ==
    [h |-> h, res |-> res, err |-> err, path |-> path, hung |-> hung, paths |-> paths]

\* r: the outcome of the fold
LoadMerged(r, paths) ==
    ConfigResult(r.h, IF r.err = "" THEN r.res ELSE VNone, r.err, "", FALSE, paths)
\* merged: the new `merged_config = {}`
LoadFold(merged, configs, ord) ==
    LoadMerged(MergeAll(merged.h, merged.v, configs.vals, ord), configs.paths)
\* l: the outcome of the loop
LoadLooped(l, ord) ==
    IF l.err # "" \/ l.hung
    THEN ConfigResult(l.h, VNone, l.err, l.path, l.hung, l.configs.paths)
    ELSE LoadFold(New(l.h, DictObj(<<>>)), l.configs, ord)
\* inc: what defaults.pop('include', []) gave
LoadIncludes(inc, defaults, files, ord) ==
    IF ~IsListVal(inc.h, inc.v)
    THEN ConfigResult(inc.h, VNone, "AttributeError", "", FALSE, <<>>)
    ELSE LoadLooped(
            LoadLoop([inc.h EXCEPT ![inc.v.r] =    \* includes.append(defaults.get('config'))
                         ListObj(Append(inc.h[inc.v.r].items,
                                        DictGet(inc.h, defaults, "config")))],
                     inc.v, [vals |-> <<defaults>>, paths |-> <<>>], files, MaxLoads),
            ord)

\* load_configuration(defaults): [h, res, err, path, hung, paths]
LoadConfiguration(h, defaults, files, ord) ==
    LoadIncludes(PopInclude(h, defaults), defaults, files, ord)

\* ------------------------------------------------------ alerts and handlers
\* An alert instance: its name and the lifecycle calls it has received.
\* rolledBack marks an instance built by a reinit that took the except branch.
NewAlert(name) == [name |-> name, starts |-> 0, stops |-> 0, resets |-> 0,
                   rolledBack |-> FALSE]

\* BaseAlert.get(self, **opts): an alert needs an option mapping with a name
AlertGetOk(h, opts) ==
    /\ IsDictVal(h, opts)
    /\ "name" \in DOMAIN h[opts.r].m
    /\ h[opts.r].m["name"].t = "s"
    /\ h[opts.r].m["name"].s # ""

\* set(BaseAlert.get(self, **opts) for opts in ...): instances are built one
\* after the other, each a new object.  [objs, ids, err]
RECURSIVE ConstructAlerts(_, _, _, _)
ConstructAlerts(h, optsList, objs, ids) ==
    IF optsList = <<>> THEN [objs |-> objs, ids |-> ids, err |-> ""]
    ELSE IF ~AlertGetOk(h, Head(optsList))
         THEN [objs |-> objs, ids |-> ids, err |-> "AlertError"]
         ELSE ConstructAlerts(h, Tail(optsList),
                              Append(objs, NewAlert(h[Head(optsList).r].m["name"].s)),
                              ids \cup {Len(objs) + 1})

\* HipChatHandler.SUPPORTED_API_VERSIONS
SupportedApiVersions == {1, 2}

\* self.options.get('api_version', 2)
HipChatApiVersion(h, hopts) ==
    IF "api_version" \in DOMAIN h[hopts.r].m THEN h[hopts.r].m["api_version"] ELSE VInt(2)

\* `assert (self.api_version in self.SUPPORTED_API_VERSIONS, '...')`: what is
\* asserted is a tuple of two elements, and a non-empty tuple is true
\* whatever its first element is
ApiVersionAssert(version) ==
    Len(<<version.t = "i" /\ version.r \in SupportedApiVersions, "is not supported">>) > 0

\* HipChatHandler.init_handler on the handler's options: the three asserts
HipChatInitOk(h, hopts) ==
    /\ Truthy(h, DictGet(h, hopts, "room"))
    /\ Truthy(h, DictGet(h, hopts, "key"))
    /\ ApiVersionAssert(HipChatApiVersion(h, hopts))

\* registry.get(self, name): does the handler construct?
RegistryGetOk(h, options, name) ==
    CASE name = "log" -> TRUE
      [] name = "hipchat" ->
            /\ "hipchat" \in DOMAIN h[options.r].m
            /\ IsDictVal(h, h[options.r].m["hipchat"])
            /\ HipChatInitOk(h, h[options.r].m["hipchat"])
      [] OTHER -> FALSE

\* the inner loop of load_handlers: handler_set.add(registry.get(self, name))
RECURSIVE HandlerSet(_, _, _, _)
HandlerSet(h, options, names, acc) ==
    IF names = <<>> THEN [set |-> acc, err |-> ""]
    ELSE IF Head(names).t # "s" \/ ~RegistryGetOk(h, options, Head(names).s)
         THEN [set |-> acc, err |-> "HandlerError"]
         ELSE HandlerSet(h, options, Tail(names), acc \cup {Head(names).s})

\* load_handlers(options, levels): [handlers, err].  `handlers` is the dict
\* created empty on line 160; each level's handler_set is filled and dropped.
RECURSIVE LoadHandlers(_, _, _, _)
LoadHandlersLevel(handler_set, h, options, rest, handlers) ==
    IF handler_set.err # "" THEN [handlers |-> handlers, err |-> handler_set.err]
    ELSE LoadHandlers(h, options, rest, handlers)
LoadHandlers(h, options, levels, handlers) ==
    IF levels = <<>> THEN [handlers |-> handlers, err |-> ""]
    ELSE IF ~IsListVal(h, DictGet(h, options, HandlersKey(Head(levels))))
         THEN [handlers |-> handlers, err |-> "TypeError"]
         ELSE LoadHandlersLevel(
                  HandlerSet(h, options,
                             h[DictGet(h, options, HandlersKey(Head(levels))).r].items, {}),
                  h, options, Tail(levels), handlers)

\* reinit_handlers(level), over the names still to visit: hm is self.handlers,
\* logged the names whose `try` body raised.  self.handlers[level] is looked
\* up before registry.get is called, inside the try: a KeyError is logged like
\* a handler that did not construct.  [hm, logged]
RECURSIVE AddHandlers(_, _, _, _, _, _)
AddHandlers(h, options, hm, level, names, logged) ==
    IF names = <<>> THEN [hm |-> hm, logged |-> logged]
    ELSE IF level \notin DOMAIN hm
         THEN AddHandlers(h, options, hm, level, Tail(names), logged \cup {Head(names)})
    ELSE IF Head(names).t # "s" \/ ~RegistryGetOk(h, options, Head(names).s)
         THEN AddHandlers(h, options, hm, level, Tail(names), logged \cup {Head(names)})
    ELSE AddHandlers(h, options, MapWith(hm, level, hm[level] \cup {Head(names).s}),
                     level, Tail(names), logged)

\* ------------------------------------------------------------ Reactor.reinit
\* new_defaults = dict(self.defaults); new_defaults.update(options): a new
\* dict whose values are the very objects of the two sources.  [h, v]
CopyUpdate(h, defaults, options) ==
    New(h, DictObj([k \in DOMAIN h[defaults.r].m \cup DOMAIN h[options.r].m |->
                       IF k \in DOMAIN h[options.r].m THEN h[options.r].m[k]
                       ELSE h[defaults.r].m[k]]))

\* `for alert in list(old_alerts): alert.stop(); self.alerts.remove(alert)`,
\* visiting old_alerts in the sequence order; set.remove raises KeyError on
\* an element the set does not hold.  [objs, cur, stopped, err]
RECURSIVE StopLoop(_, _, _, _)
StopLoop(order, objs, cur, stopped) ==
    IF order = <<>> THEN [objs |-> objs, cur |-> cur, stopped |-> stopped, err |-> ""]
    ELSE IF Head(order) \notin cur
         THEN [objs |-> [objs EXCEPT ![Head(order)].stops = @ + 1], cur |-> cur,
               stopped |-> stopped \cup {Head(order)}, err |-> "KeyError"]
         ELSE StopLoop(Tail(order), [objs EXCEPT ![Head(order)].stops = @ + 1],
                       cur \ {Head(order)}, stopped \cup {Head(order)})

\* `for alert in self.alerts: alert.start()`
StartAll(objs, cur) ==
    [i \in DOMAIN objs |-> IF i \in cur THEN [objs[i] EXCEPT !.starts = @ + 1] ELSE objs[i]]

MarkRolledBack(objs, ids) ==
    [i \in DOMAIN objs |-> IF i \in ids THEN [objs[i] EXCEPT !.rolledBack = TRUE] ELSE objs[i]]

Perms(S) == {sq \in [1..Cardinality(S) -> S] :
                \A i, j \in 1..Cardinality(S) : i # j => sq[i] # sq[j]}

\* what a call reports besides the reactor's fields
NoOutcome == [err |-> "", path |-> "", hung |-> FALSE, loaded |-> FALSE,
              paths |-> <<>>,     \* the files load_configuration loaded, in order
              newOptions |-> TNone, newDefaults |-> TNone, committed |-> FALSE,
              constructed |-> {}, stopped |-> {}, started |-> {}]

\* reinit(**ov) on the reactor R = [heap, options, defaults, alerts, handlers,
\* objs, logLevel], with `files` on disk, `ord` the dict iteration order and
\* `order` the order in which list(old_alerts) enumerates the old alert set.
\* Result: [R, out].  The steps below are the code's, last step first.

\* lines 98-103: st is the outcome of the stop loop
ReinitStopped(st, R3, out3) ==
    IF st.err # ""
    THEN [R |-> [R3 EXCEPT !.objs = st.objs, !.alerts = st.cur],
          out |-> [out3 EXCEPT !.err = st.err, !.stopped = st.stopped]]
    ELSE [R |-> [R3 EXCEPT !.objs = StartAll(st.objs, st.cur), !.alerts = st.cur],
          out |-> [out3 EXCEPT !.stopped = st.stopped, !.started = st.cur]]

\* lines 95-96: self.handlers = new_handlers;
\* old_alerts, self.alerts = self.alerts, new_alerts
ReinitCommit(R3, out3, order) ==
    ReinitStopped(StopLoop(order, R3.objs, R3.alerts, {}), R3, out3)

\* lines 89-96: loaded is what load_handlers returned or raised
ReinitHandlers(loaded, built, R, R2, out1, order) ==
    IF loaded.err # ""
    THEN \* except: self.options = old_options; self.defaults = old_defaults; raise
         [R |-> [R2 EXCEPT !.options = R.options, !.defaults = R.defaults,
                           !.objs = MarkRolledBack(built.objs, built.ids)],
          out |-> [out1 EXCEPT !.err = loaded.err, !.constructed = built.ids]]
    ELSE ReinitCommit([R2 EXCEPT !.handlers = [set |-> TRUE, m |-> loaded.handlers],
                                 !.alerts = built.ids, !.objs = built.objs],
                      [out1 EXCEPT !.committed = TRUE, !.constructed = built.ids],
                      order)

\* lines 87-89: built is the outcome of constructing the alerts
ReinitAlerts(built, R, R2, out1, order) ==
    ReinitHandlers(IF built.err # "" THEN [handlers |-> <<>>, err |-> built.err]
                   ELSE LoadHandlers(R2.heap, R2.options, Levels, <<>>),
                   built, R, R2, out1, order)

\* new_options.get('alerts', []) and the set(...) built from it
NewAlerts(h, new_options, objs) ==
    IF "alerts" \notin DOMAIN h[new_options.r].m THEN [objs |-> objs, ids |-> {}, err |-> ""]
    ELSE IF ~IsListVal(h, h[new_options.r].m["alerts"])
         THEN [objs |-> objs, ids |-> {}, err |-> "TypeError"]
         ELSE ConstructAlerts(h, h[h[new_options.r].m["alerts"].r].items, objs, {})

\* line 83: level is what _get_numeric_log_level returned or raised
ReinitLogLevel(level, R, R1, out1, order) ==
    IF level.err # "" THEN [R |-> R1, out |-> [out1 EXCEPT !.err = level.err]]
    ELSE ReinitAlerts(NewAlerts(R1.heap, R1.options, R.objs), R,
                      [R1 EXCEPT !.logLevel = level.n], out1, order)

\* lines 80-83: self.options = new_options; self.defaults = new_defaults
ReinitAssign(R, R1, out1, order) ==
    ReinitLogLevel(GetNumericLogLevel(IF "logging" \in DOMAIN R1.heap[R1.options.r].m
                                      THEN R1.heap[R1.options.r].m["logging"]
                                      ELSE VStr("info")),
                   R, R1, out1, order)

\* line 78: ld is what load_configuration returned or raised
ReinitLoaded(ld, new_defaults, R, order) ==
    IF ld.hung
    THEN [R |-> [R EXCEPT !.heap = ld.h],
          out |-> [NoOutcome EXCEPT !.hung = TRUE, !.paths = ld.paths]]
    ELSE IF ld.err # ""
    THEN [R |-> [R EXCEPT !.heap = ld.h],
          out |-> [NoOutcome EXCEPT !.err = ld.err, !.path = ld.path, !.paths = ld.paths]]
    ELSE ReinitAssign(R,
                      [R EXCEPT !.heap = ld.h, !.options = ld.res, !.defaults = new_defaults],
                      [NoOutcome EXCEPT !.loaded = TRUE, !.paths = ld.paths,
                                        !.newOptions = Snapshot(ld.h, ld.res),
                                        !.newDefaults = Snapshot(ld.h, new_defaults)],
                      order)

\* lines 76-78: new_defaults is the updated copy of self.defaults
ReinitDefaults(new_defaults, R, files, ord, order) ==
    ReinitLoaded(LoadConfiguration(new_defaults.h, new_defaults.v, files, ord),
                 new_defaults.v, R, order)

\* kwargs: the keyword arguments, objects of the caller
ReinitKwargs(kwargs, R, files, ord, order) ==
    ReinitDefaults(CopyUpdate(kwargs.h, R.defaults, kwargs.v), R, files, ord, order)

ReinitCall(R, ov, files, ord, order) ==
    ReinitKwargs(Alloc(R.heap, ov), R, files, ord, order)

\* --------------------------------------------------------- repeat and notify
\* a mutant of ResetAll: every alert ever built is reset
ResetEveryObject(objs, cur) ==
    [i \in DOMAIN objs |-> [objs[i] EXCEPT !.resets = @ + 1]]

\* `for alert in self.alerts: alert.reset()`
ResetAll(objs, cur) ==
    [i \in DOMAIN objs |-> IF i \in cur THEN [objs[i] EXCEPT !.resets = @ + 1] ELSE objs[i]]

\* parse_interval(value): the duration an interval option is parsed into
ParseInterval(value) == [duration |-> value]

\* a mutant of CallbackAfterReinit: reinit re-arms the timer from the options
CallbackRearmed(cb, h, opts) ==
    [cb EXCEPT !.period = IF IsDictVal(h, opts)
                          THEN ParseInterval(Snapshot(h, DictGet(h, opts, "repeat_interval")))
                          ELSE @]

\* self.callback over a reinit of the constructed reactor, whose options are
\* then opts: no statement of reinit names self.callback
CallbackAfterReinit(cb, h, opts) == cb

\* `for handler in self.handlers.get(level, [])`: the handlers notified
NotifyTargets(hm, level) == IF level \in DOMAIN hm THEN hm[level] ELSE {}

\* ================================================================ variables
VARIABLES
    heap,       \* the list and dict objects
    options,    \* self.options
    defaults,   \* self.defaults (the class attribute until reinit assigns it)
    alerts,     \* self.alerts, a set of alert instances (indices of objs)
    handlers,   \* self.handlers: [set, m]; set is FALSE before the first assignment
    objs,       \* every alert instance built so far
    logLevel,   \* LOGGER's level
    callback,   \* the PeriodicCallback: [period, running]
    phase,      \* "new", "ready", "failed" (constructor raised), "hung", "stopped"
    nReinit,    \* reinit calls made after construction
    pre,        \* the reactor's state, by value, before the last call
    last,       \* the last call and its outcome
    okReinit,   \* the most recent reinit (or construction) returned normally
    m           \* the merge under test: inputs, iteration order, outcome

vars == <<heap, options, defaults, alerts, handlers, objs, logLevel, callback,
          phase, nReinit, pre, last, okReinit, m>>

\* ------------------------------------------------- merge_configurations runs
\* Bounded configuration trees: None and strings (a string stands for every
\* primitive: they all take the first branch), sequences of primitives,
\* mappings of one key to primitives, and mappings of up to two keys to any
\* of these.
ScalarNames == <<"s1", "s2", "s3">>
MKeys == <<"k1", "k2">>
MLeaves == {TNone} \cup {TStr(ScalarNames[i]) : i \in 1..MaxScalar}
MLists == UNION {{TList(sq) : sq \in [1..n -> MLeaves]} : n \in 0..MaxLen}
MFlat == MLeaves \cup MLists
MInner == {TDict(<<>>)} \cup {TDict(MapOf({<<MKeys[1], x>>})) : x \in MLeaves}
MValues == MFlat \cup MInner
MDicts == UNION {{TDict(f) : f \in [K -> MValues]} : K \in SUBSET {MKeys[1], MKeys[2]}}
MTrees == MFlat \cup MDicts
MOrders == {MKeys, Reverse(MKeys)}

MIdle == [phase |-> "idle", a |-> TNone, b |-> TNone, ord |-> <<>>,
          err |-> "", res |-> TNone, aAfter |-> TNone, bAfter |-> TNone]

\* ------------------------------------------------------------ inputs, bounds
MaxReinits == 1
MaxResets == 1

AlertOpts(name) == TDict(MapOf({<<"name", TStr(name)>>}))
HipChatOpts == TDict(MapOf({<<"room", TStr("ops")>>, <<"key", TStr("secret")>>}))
HipChatConfig == {<<"critical_handlers", TList(<<TStr("hipchat")>>)>>,
                  <<"hipchat", HipChatOpts>>}
NoOverrides == TDict(<<>>)
OnlyConfig(tree) == MapOf({<<"config.json", FOk(tree)>>})

\* The calls the model makes: keyword arguments of reinit and files on disk.
CallNames == {"plain", "xz", "yz", "bad3", "hip", "mergeerr", "missing", "garbage",
              "nonmap", "badlog", "nested", "ovinc", "cyclic", "ovlog", "nohandler",
              "tree", "hip3"}
CallOverrides(c) ==
    CASE c = "ovinc" -> TDict(MapOf({<<"include", TList(<<TStr("a.json"), TStr("b.json")>>)>>}))
      [] c = "ovlog" -> TDict(MapOf({<<"logging", TStr("debug")>>,
                                     <<"repeat_interval", TStr("1hour")>>}))
      [] OTHER -> NoOverrides
CallFiles(c) ==
    CASE c = "plain" -> OnlyConfig(TDict(MapOf({<<"interval", TStr("5minute")>>})))
      [] c = "xz" -> OnlyConfig(TDict(MapOf({
            <<"alerts", TList(<<AlertOpts("X"), AlertOpts("Z")>>)>>})))
      [] c = "yz" -> OnlyConfig(TDict(MapOf({
            <<"alerts", TList(<<AlertOpts("Y"), AlertOpts("Z")>>)>>})))
      [] c = "bad3" -> OnlyConfig(TDict(MapOf({
            <<"alerts", TList(<<AlertOpts("X"), AlertOpts("Z"), TDict(<<>>)>>)>>})))
      [] c = "hip" -> OnlyConfig(TDict(MapOf(HipChatConfig)))
      [] c = "mergeerr" -> MapOf({
            <<"config.json", FOk(TDict(MapOf(HipChatConfig \cup
                  {<<"include", TList(<<TStr("a.json")>>)>>})))>>,
            <<"a.json", FOk(TDict(MapOf({<<"hipchat", TStr("off")>>})))>>})
      [] c = "missing" -> MapOf({
            <<"config.json", FOk(TDict(MapOf({<<"include", TList(<<TStr("a.json")>>)>>})))>>,
            <<"a.json", FOk(TDict(MapOf({<<"include", TList(<<TStr("b.json")>>)>>})))>>})
      [] c = "garbage" -> MapOf({<<"config.json", FGarbage>>})
      [] c = "nonmap" -> OnlyConfig(TNone)
      [] c = "badlog" -> OnlyConfig(TDict(MapOf({<<"logging", TStr("loud")>>})))
      [] c = "nested" -> MapOf({
            <<"config.json", FOk(TDict(MapOf({<<"prefix", TStr("1")>>,
                  <<"include", TList(<<TStr("a.json")>>)>>})))>>,
            <<"a.json", FOk(TDict(MapOf({<<"prefix", TStr("2")>>,
                  <<"hipchat", HipChatOpts>>,
                  <<"normal_handlers", TList(<<TStr("hipchat")>>)>>,
                  <<"include", TList(<<TStr("b.json")>>)>>})))>>,
            <<"b.json", FOk(TDict(MapOf({<<"normal_handlers", TList(<<TStr("log")>>)>>})))>>})
      [] c = "ovinc" -> MapOf({
            <<"config.json", FOk(TDict(MapOf({<<"prefix", TStr("c")>>})))>>,
            <<"a.json", FOk(TDict(MapOf({<<"prefix", TStr("a")>>})))>>,
            <<"b.json", FOk(TDict(MapOf({<<"prefix", TStr("b")>>})))>>})
      [] c = "cyclic" -> OnlyConfig(TDict(MapOf({
            <<"include", TList(<<TStr("config.json")>>)>>})))
      [] c = "ovlog" -> OnlyConfig(TDict(<<>>))
      [] c = "nohandler" -> OnlyConfig(TDict(MapOf({
            <<"warning_handlers", TList(<<TStr("nosuch")>>)>>})))
      [] c = "hip3" -> OnlyConfig(TDict(MapOf({
            <<"critical_handlers", TList(<<TStr("hipchat")>>)>>,
            <<"hipchat", TDict(MapOf({<<"room", TStr("ops")>>, <<"key", TStr("secret")>>,
                                      <<"api_version", TInt(3)>>}))>>})))
      [] c = "tree" -> MapOf({
            <<"config.json", FOk(TDict(MapOf({<<"prefix", TStr("0")>>,
                  <<"include", TList(<<TStr("a.json"), TStr("b.json")>>)>>})))>>,
            <<"a.json", FOk(TDict(MapOf({<<"prefix", TStr("a")>>,
                  <<"include", TList(<<TStr("c.json")>>)>>})))>>,
            <<"c.json", FOk(TDict(MapOf({<<"prefix", TStr("c")>>,
                  <<"interval", TStr("1minute")>>})))>>,
            <<"b.json", FOk(TDict(MapOf({<<"prefix", TStr("b")>>})))>>})

\* ------------------------------------------------------------------- actions
Self == [heap |-> heap, options |-> options, defaults |-> defaults, alerts |-> alerts,
         handlers |-> handlers, objs |-> objs, logLevel |-> logLevel]

\* the reactor's state by value
ValueOf(R) == [options |-> Snapshot(R.heap, R.options),
               defaults |-> Snapshot(R.heap, R.defaults),
               alerts |-> R.alerts, handlers |-> R.handlers, objs |-> R.objs]

\* after: the call made just before, when that was a construction or reinit
\* that returned normally
NoCall == [op |-> "none", call |-> "", after |-> "", level |-> "", delivered |-> {},
           logged |-> {}, out |-> NoOutcome]

Adopt(R) ==
    /\ heap' = R.heap
    /\ options' = R.options
    /\ defaults' = R.defaults
    /\ alerts' = R.alerts
    /\ handlers' = R.handlers
    /\ objs' = R.objs
    /\ logLevel' = R.logLevel

\* Reactor.defaults, the object
ClassDefaultsRef == Alloc(<<>>, ClassDefaults).v

InitReactor ==
    /\ heap = Alloc(<<>>, ClassDefaults).h
    /\ defaults = ClassDefaultsRef
    /\ options = VNone
    /\ alerts = {}
    /\ handlers = [set |-> FALSE, m |-> <<>>]
    /\ objs = <<>>
    /\ logLevel = 0
    /\ callback = [set |-> FALSE, period |-> ParseInterval(TNone), running |-> FALSE]
    /\ phase = "new"
    /\ nReinit = 0
    /\ pre = ValueOf([heap |-> Alloc(<<>>, ClassDefaults).h,
                      options |-> VNone,
                      defaults |-> Alloc(<<>>, ClassDefaults).v,
                      alerts |-> {}, handlers |-> [set |-> FALSE, m |-> <<>>],
                      objs |-> <<>>])
    /\ last = NoCall
    /\ okReinit = FALSE

Init == InitReactor /\ m = MIdle

\* Reactor.__init__(**options)
Construct(c) ==
    /\ phase = "new"
    /\ \E r \in {ReinitCall(Self, CallOverrides(c), CallFiles(c), AllKeys, <<>>)} :
           /\ Adopt(r.R)
           /\ pre' = ValueOf(Self)
           /\ last' = [NoCall EXCEPT !.op = "construct", !.call = c, !.out = r.out]
           /\ phase' = IF r.out.hung THEN "hung"
                       ELSE IF r.out.err # "" THEN "failed" ELSE "ready"
           /\ callback' = IF r.out.hung \/ r.out.err # "" THEN callback
                          ELSE [set |-> TRUE,
                                period |-> ParseInterval(Snapshot(r.R.heap,
                                              DictGet(r.R.heap, r.R.options, "repeat_interval"))),
                                running |-> FALSE]
           /\ okReinit' = (~r.out.hung /\ r.out.err = "")
    /\ UNCHANGED <<nReinit, m>>

\* Reactor.reinit(**options) on the constructed reactor
Reinit(c) ==
    /\ phase = "ready"
    /\ nReinit < MaxReinits
    /\ \E order \in Perms(alerts) :
        \E r \in {ReinitCall(Self, CallOverrides(c), CallFiles(c), AllKeys, order)} :
           /\ Adopt(r.R)
           /\ pre' = ValueOf(Self)
           /\ last' = [NoCall EXCEPT !.op = "reinit", !.call = c, !.out = r.out,
                  !.after = IF last.op \in {"construct", "reinit"} /\ last.out.err = ""
                            THEN last.call ELSE ""]
           /\ phase' = IF r.out.hung THEN "hung" ELSE "ready"
           /\ okReinit' = (~r.out.hung /\ r.out.err = "")
           /\ callback' = CallbackAfterReinit(callback, r.R.heap, r.R.options)
    /\ nReinit' = nReinit + 1
    /\ UNCHANGED m

\* Reactor.repeat()
Repeat ==
    /\ phase = "ready"
    /\ \A i \in alerts : objs[i].resets < MaxResets
    /\ objs' = ResetAll(objs, alerts)
    /\ pre' = ValueOf(Self)
    /\ last' = [NoCall EXCEPT !.op = "repeat"]
    /\ UNCHANGED <<heap, options, defaults, alerts, handlers, logLevel, callback,
                   phase, nReinit, okReinit, m>>

\* Reactor.notify(level, alert, value)
Notify(level) ==
    /\ phase = "ready"
    /\ pre' = ValueOf(Self)
    /\ last' = [NoCall EXCEPT !.op = "notify", !.level = level,
                              !.delivered = NotifyTargets(handlers.m, level)]
    /\ UNCHANGED <<heap, options, defaults, alerts, handlers, objs, logLevel, callback,
                   phase, nReinit, okReinit, m>>

\* Reactor.reinit_handlers(level)
reinit_handlers(level) ==
    /\ phase = "ready"
    /\ \E r \in {AddHandlers(heap, options, handlers.m, level,
                              heap[heap[options.r].m[HandlersKey(level)].r].items,
                              {})} :
           /\ handlers' = [handlers EXCEPT !.m = r.hm]
           /\ last' = [NoCall EXCEPT !.op = "reinit_handlers", !.level = level,
                                     !.logged = r.logged]
    /\ pre' = ValueOf(Self)
    /\ UNCHANGED <<heap, options, defaults, alerts, objs, logLevel, callback,
                   phase, nReinit, okReinit, m>>

\* Reactor.start(): the timer is started and the loop runs; every other
\* operation is then a callback of the loop.  No configuration of the model
\* sets a pidfile.
Start ==
    /\ phase = "ready"
    /\ ~callback.running
    /\ callback' = [callback EXCEPT !.running = TRUE]
    /\ pre' = ValueOf(Self)
    /\ last' = [NoCall EXCEPT !.op = "start"]
    /\ UNCHANGED <<heap, options, defaults, alerts, handlers, objs, logLevel,
                   phase, nReinit, okReinit, m>>

\* Reactor.stop(): the timer and the loop are stopped
Stop ==
    /\ phase = "ready"
    /\ callback' = [callback EXCEPT !.running = FALSE]
    /\ phase' = "stopped"
    /\ pre' = ValueOf(Self)
    /\ last' = [NoCall EXCEPT !.op = "stop"]
    /\ UNCHANGED <<heap, options, defaults, alerts, handlers, objs, logLevel,
                   nReinit, okReinit, m>>

Next ==
    \/ \E c \in CallNames : Construct(c)
    \/ \E c \in CallNames : Reinit(c)
    \/ Repeat
    \/ \E i \in 1..3 : Notify(Levels[i])

Spec == Init /\ [][Next]_vars

\* The reactor's life: construction, start of the loop, hot reloads and
\* rebuilds of a level's handlers, shutdown.  The reset cycle and notify,
\* which touch neither the timer nor the handler map, are left to Spec.
LifeCalls == {"plain", "xz", "ovlog", "badlog", "missing", "nohandler"}

LifeNext ==
    \/ \E c \in LifeCalls : Construct(c)
    \/ \E c \in LifeCalls : Reinit(c)
    \/ \E i \in 1..3 : reinit_handlers(Levels[i])
    \/ Start
    \/ Stop

LifeSpec == Init /\ [][LifeNext]_vars

\* one call merge_configurations(a, b) on newly built a and b
MApply ==
    /\ m.phase = "ready"
    /\ \E ord \in MOrders :
       \E ra \in {Alloc(<<>>, m.a)} :
       \E rb \in {Alloc(ra.h, m.b)} :
       \E r \in {merge_configurations(rb.h, ra.v, rb.v, ord)} :
          m' = [m EXCEPT !.phase = "done", !.ord = ord, !.err = r.err,
                          !.res = IF r.err = "" THEN Snapshot(r.h, r.res) ELSE TNone,
                          !.aAfter = Snapshot(r.h, ra.v),
                          !.bAfter = Snapshot(r.h, rb.v)]
    /\ UNCHANGED <<heap, options, defaults, alerts, handlers, objs, logLevel, callback,
                   phase, nReinit, pre, last, okReinit>>

\* the merge runs involve no reactor: its variables stay empty
MInit ==
    /\ heap = <<>>
    /\ defaults = VNone
    /\ options = VNone
    /\ alerts = {}
    /\ handlers = [set |-> FALSE, m |-> <<>>]
    /\ objs = <<>>
    /\ logLevel = 0
    /\ callback = [set |-> FALSE, period |-> ParseInterval(TNone), running |-> FALSE]
    /\ phase = "none"
    /\ nReinit = 0
    /\ pre = [options |-> TNone, defaults |-> TNone, alerts |-> {},
              handlers |-> [set |-> FALSE, m |-> <<>>], objs |-> <<>>]
    /\ last = NoCall
    /\ okReinit = FALSE
    /\ m \in {[MIdle EXCEPT !.phase = "ready", !.a = a, !.b = b] : a \in MTrees, b \in MTrees}
MNext == MApply
MergeSpec == MInit /\ [][MNext]_vars

\* ================================================================ properties
\* the four fields the claims compare by value
SameAsBefore ==
    /\ Snapshot(heap, options) = pre.options
    /\ Snapshot(heap, defaults) = pre.defaults
    /\ alerts = pre.alerts
    /\ handlers = pre.handlers

\* no alert that existed before the call received a lifecycle call
NoLifecycleCall == \A i \in DOMAIN pre.objs : objs[i] = pre.objs[i]

\* the alert names a configuration tree asks for
AlertNames(tree) ==
    IF tree.t = "dict" /\ "alerts" \in DOMAIN tree.m /\ tree.m["alerts"].t = "list"
    THEN {tree.m["alerts"].items[i].m["name"].s : i \in
            {j \in 1..Len(tree.m["alerts"].items) :
                "name" \in DOMAIN tree.m["alerts"].items[j].m}}
    ELSE {}

\* the handler names a configuration tree lists for a level
HandlerNames(tree, level) ==
    IF tree.t = "dict" /\ HandlersKey(level) \in DOMAIN tree.m
       /\ tree.m[HandlersKey(level)].t = "list"
    THEN {tree.m[HandlersKey(level)].items[i].s :
            i \in 1..Len(tree.m[HandlersKey(level)].items)}
    ELSE {}

\* the state is entirely the one the new configuration asks for
EntirelyNew ==
    /\ last.out.loaded
    /\ Snapshot(heap, options) = last.out.newOptions
    /\ Snapshot(heap, defaults) = last.out.newDefaults
    /\ handlers.set
    /\ alerts \cap DOMAIN pre.objs = {}
    /\ {objs[i].name : i \in alerts} = AlertNames(last.out.newOptions)
    /\ \A i \in pre.alerts : objs[i].stops = pre.objs[i].stops + 1
    /\ \A i \in alerts : objs[i].starts = 1 /\ objs[i].stops = 0

\* C1: a reinit that raises leaves the reactor either entirely in its
\* pre-call state (same options, defaults, alert set with no lifecycle call,
\* handler map) or entirely in the new state; no mixture is reachable.
C1_ReinitAllOrNothing ==
    (last.op = "reinit" /\ last.out.err # "") =>
        \/ (SameAsBefore /\ NoLifecycleCall)
        \/ EntirelyNew

\* C2: when the construction of an alert or of a handler raises during a
\* reinit of an initialised reactor, the options, defaults, alert set and
\* handler map are afterwards equal by value to what they were before.
C2_ConstructionFailureRestores ==
    (last.op = "reinit" /\ last.out.err \in {"AlertError", "HandlerError", "TypeError"})
        => SameAsBefore

\* C3: a reinit with a valid configuration on a reactor whose alert set O is
\* not empty returns normally, stops every alert of O \ N exactly once and
\* drops it, starts every alert of N \ O exactly once, and leaves N active.
C3_ValidReinitSwapsAlerts ==
    (last.op = "reinit" /\ last.out.committed /\ pre.alerts # {}) =>
        /\ last.out.err = ""
        /\ \A i \in pre.alerts \ last.out.constructed :
              objs[i].stops = pre.objs[i].stops + 1 /\ i \notin alerts
        /\ \A i \in last.out.constructed \ pre.alerts : objs[i].starts = 1
        /\ alerts = last.out.constructed

\* C4: when the configuration changes from alerts X, Z to alerts Y, Z, the
\* second reinit makes exactly one stop() call, on the instance of X, and
\* exactly one start() call, on the instance of Y.
C4_OnlyChangedAlertsCycle ==
    (/\ last.op = "reinit" /\ last.call = "yz"
     /\ {pre.objs[i].name : i \in pre.alerts} = {"X", "Z"}
     /\ \A i \in pre.alerts : pre.objs[i].starts = 1 /\ pre.objs[i].stops = 0) =>
        /\ last.out.err = ""
        /\ last.out.stopped = {i \in pre.alerts : pre.objs[i].name = "X"}
        /\ last.out.started = {i \in last.out.constructed : objs[i].name = "Y"}
        /\ Cardinality(last.out.stopped) = 1
        /\ Cardinality(last.out.started) = 1

\* C5: after a successful reinit, notify(L, ...) reaches a handler for every
\* name listed in L_handlers of the options, and no handler listed only
\* under the other levels.
C5_NotifyReachesLevelHandlers ==
    (last.op = "notify" /\ okReinit) =>
        last.delivered = HandlerNames(Snapshot(heap, options), last.level)

\* C6: a reinit whose merge of the loaded fragments fails leaves options and
\* defaults (the contents of their sequences included), alert set and
\* handler map equal by value to their pre-call values.
C6_MergeFailureMutatesNothing ==
    (last.op = "reinit" /\ last.out.err = "ConfigMergeError") =>
        (SameAsBefore /\ NoLifecycleCall)

\* the files a load reads: the primary config, the includes of the keyword
\* arguments, and what they include, transitively
IncludesOf(tree) ==
    IF tree.t = "dict" /\ "include" \in DOMAIN tree.m /\ tree.m["include"].t = "list"
    THEN {tree.m["include"].items[i].s : i \in 1..Len(tree.m["include"].items)}
    ELSE {}
RECURSIVE ReachFiles(_, _, _)
ReachFiles(files, todo, seen) ==
    IF todo = {} THEN seen
    ELSE LET p == CHOOSE x \in todo : TRUE
             more == IF FileAt(files, p).kind = "ok"
                     THEN IncludesOf(FileAt(files, p).tree) ELSE {}
         IN ReachFiles(files, (todo \cup more) \ (seen \cup {p}), seen \cup {p})
FilesRead(c) ==
    ReachFiles(CallFiles(c),
               IncludesOf(CallOverrides(c)) \cup
                  (IF "config" \in DOMAIN CallOverrides(c).m
                   THEN {CallOverrides(c).m["config"].s}
                   ELSE {pre.defaults.m["config"].s}),
               {})
Offending(c) == {p \in FilesRead(c) : FileAt(CallFiles(c), p).kind \in {"missing", "garbage"}}
WellFormedOtherwise(c) ==
    \A p \in FilesRead(c) \ Offending(c) : FileAt(CallFiles(c), p).tree.t = "dict"

\* C7: when the primary config file or a (nested) include is missing or
\* unparseable, the load aborts with an InvalidConfigError naming that path
\* and the reinit raises with options, defaults, alert set and handler map
\* unchanged.
C7_BadFileAbortsLoad ==
    (last.op \in {"construct", "reinit"} /\ Offending(last.call) # {}
        /\ WellFormedOtherwise(last.call)) =>
        /\ last.out.err = "InvalidConfigError"
        /\ last.out.path \in Offending(last.call)
        /\ ~last.out.loaded
        /\ SameAsBefore
        /\ NoLifecycleCall

C7_Witness ==
    /\ last.op = "reinit"
    /\ last.out.err = "InvalidConfigError"
    /\ last.out.path = "b.json"
    /\ pre.alerts # {}
    /\ pre.handlers.set

\* C8: a reset cycle calls reset() exactly once on every alert of the active
\* alert set and on no other alert: none that a reinit stopped, none that a
\* rolled-back reinit built.
C8_ResetCycleCoversActiveSet ==
    (last.op = "repeat") =>
        /\ \A i \in DOMAIN objs :
              objs[i].resets = pre.objs[i].resets + (IF i \in alerts THEN 1 ELSE 0)
        /\ \A i \in DOMAIN objs :
              (objs[i].stops > 0 \/ objs[i].rolledBack) => objs[i].resets = pre.objs[i].resets

C8_Witness ==
    /\ last.op = "repeat"
    /\ alerts # {}
    /\ \A i \in alerts : objs[i].resets = 1
    /\ \E i \in DOMAIN objs : objs[i].stops > 0 \/ objs[i].rolledBack

\* what the merge of two trees is, by value
RECURSIVE Merged(_, _)
Merged(a, b) ==
    IF IsLeafTree(a) THEN b
    ELSE IF a.t = "list"
         THEN IF b.t = "list" THEN TList(a.items \o b.items)
              ELSE TList(Append(a.items, b))
    ELSE TDict([k \in DOMAIN a.m \cup DOMAIN b.m |->
                    IF k \notin DOMAIN b.m THEN a.m[k]
                    ELSE IF k \notin DOMAIN a.m THEN b.m[k]
                    ELSE Merged(a.m[k], b.m[k])])

\* C9: merge_configurations(a, b) returns b when a is None or a scalar, a's
\* elements followed by b's when both are sequences, a's elements followed
\* by b when only a is a sequence, and for two mappings the key-wise union
\* with common keys merged recursively.
C9_MergeResult ==
    (m.phase = "done") =>
        /\ IsLeafTree(m.a) => (m.err = "" /\ m.res = m.b)
        /\ (m.a.t = "list" /\ m.b.t = "list") =>
              (m.err = "" /\ m.res = TList(m.a.items \o m.b.items))
        /\ (m.a.t = "list" /\ m.b.t # "list") =>
              (m.err = "" /\ m.res = TList(Append(m.a.items, m.b)))
        /\ (m.a.t = "dict" /\ m.b.t = "dict" /\ m.err = "") =>
              /\ m.res.t = "dict"
              /\ DOMAIN m.res.m = DOMAIN m.a.m \cup DOMAIN m.b.m
              /\ \A k \in DOMAIN m.res.m :
                    m.res.m[k] = IF k \notin DOMAIN m.b.m THEN m.a.m[k]
                                 ELSE IF k \notin DOMAIN m.a.m THEN m.b.m[k]
                                 ELSE Merged(m.a.m[k], m.b.m[k])

C9_Witness ==
    /\ m.phase = "done"
    /\ m.err = ""
    /\ m.a.t = "dict" /\ m.b.t = "dict"
    /\ DOMAIN m.a.m = {"k1", "k2"} /\ DOMAIN m.b.m = {"k1", "k2"}
    /\ m.a.m["k1"].t = "list" /\ m.b.m["k1"].t = "list"
    /\ Len(m.a.m["k1"].items) = 1 /\ Len(m.b.m["k1"].items) = 1
    /\ m.a.m["k2"].t = "dict" /\ m.b.m["k2"].t = "dict"
    /\ DOMAIN m.a.m["k2"].m = {"k1"} /\ DOMAIN m.b.m["k2"].m = {"k1"}

\* C10: merging a non-mapping into a mapping, at the top level or at a nested
\* key, raises ConfigMergeError and leaves the mapping a of the top-level
\* call unchanged.
C10_MergeErrorLeavesAUnchanged ==
    (m.phase = "done") =>
        /\ (m.a.t = "dict" /\ m.b.t # "dict") => m.err = "ConfigMergeError"
        /\ (m.err # "") => (m.err = "ConfigMergeError" /\ m.aAfter = m.a)

\* the paths a configuration tree declares under `include`, as declared
IncludeSeq(tree) ==
    IF tree.t = "dict" /\ "include" \in DOMAIN tree.m /\ tree.m["include"].t = "list"
    THEN [i \in 1..Len(tree.m["include"].items) |-> tree.m["include"].items[i].s]
    ELSE <<>>

\* the files loaded from a work list whose next entry is its head, when each
\* file's includes come next, as declared; at most fuel files
RECURSIVE DepthFirst(_, _, _)
DepthFirst(files, stack, fuel) ==
    IF stack = <<>> \/ fuel = 0 THEN <<>>
    ELSE <<Head(stack)>> \o
         DepthFirst(files, IncludeSeq(FileAt(files, Head(stack)).tree) \o Tail(stack),
                    fuel - 1)

WithoutInclude(tree) == TDict([k \in DOMAIN tree.m \ {"include"} |-> tree.m[k]])

\* the defaults a call starts from, by value: the defaults before the call,
\* updated key by key with the keyword arguments
UpdatedDefaults(c) ==
    TDict([k \in DOMAIN pre.defaults.m \cup DOMAIN CallOverrides(c).m |->
              IF k \in DOMAIN CallOverrides(c).m THEN CallOverrides(c).m[k]
              ELSE pre.defaults.m[k]])

\* the fragments of the files `paths`, merged in that order into acc
RECURSIVE FoldMerged(_, _, _)
FoldMerged(acc, files, paths) ==
    IF paths = <<>> THEN acc
    ELSE FoldMerged(Merged(acc, WithoutInclude(FileAt(files, Head(paths)).tree)),
                    files, Tail(paths))

\* C11: a load reads the primary config file first; the includes a loaded
\* file declares are loaded right after it, in declared order and depth
\* first; the result is the defaults with the fragments merged in load order
\* (later scalars win, sequences accumulate).
C11_LoadOrderAndFold ==
    /\ (last.op = "construct" /\ last.call = "nested") =>
        \* primary {prefix: 1} including {prefix: 2, normal_handlers: [hipchat]}
        \* including {normal_handlers: [log]}, after the default [log]
        /\ last.out.loaded
        /\ last.out.newOptions.m["prefix"] = TStr("2")
        /\ last.out.newOptions.m["normal_handlers"] =
              TList(<<TStr("log"), TStr("hipchat"), TStr("log")>>)
    /\ (last.op \in {"construct", "reinit"} /\ last.out.loaded) =>
        /\ last.out.paths # <<>>
        /\ last.out.paths[1] = UpdatedDefaults(last.call).m["config"].s
        /\ \A i \in 1..Len(last.out.paths) :
              \E D \in {DepthFirst(CallFiles(last.call), <<last.out.paths[i]>>,
                                   Len(last.out.paths) + 1)} :
                 /\ i + Len(D) - 1 <= Len(last.out.paths)
                 /\ SubSeq(last.out.paths, i, i + Len(D) - 1) = D
        /\ last.out.newOptions =
              FoldMerged(WithoutInclude(UpdatedDefaults(last.call)),
                         CallFiles(last.call), last.out.paths)

C11_Witness ==
    /\ last.op = "reinit"
    /\ last.call = "tree"
    /\ last.out.loaded
    /\ last.out.paths = <<"config.json", "a.json", "c.json", "b.json">>
    /\ last.out.newOptions.m["prefix"] = TStr("b")
    /\ last.out.newOptions.m["interval"] = TStr("1minute")

\* C12: when the options carry an `include` list of two or more files, these
\* are loaded after the primary config file and its nested includes, in the
\* order in which they are listed, so that a later-listed file overrides an
\* earlier-listed one.
C12_OptionIncludesInListedOrder ==
    (/\ last.op \in {"construct", "reinit"} /\ last.out.loaded
     /\ Len(IncludeSeq(UpdatedDefaults(last.call))) >= 2) =>
        /\ last.out.paths =
              DepthFirst(CallFiles(last.call),
                         <<UpdatedDefaults(last.call).m["config"].s>> \o
                            IncludeSeq(UpdatedDefaults(last.call)),
                         MaxLoads + 1)
        /\ last.out.newOptions =
              FoldMerged(WithoutInclude(UpdatedDefaults(last.call)), CallFiles(last.call),
                         DepthFirst(CallFiles(last.call),
                                    <<UpdatedDefaults(last.call).m["config"].s>> \o
                                       IncludeSeq(UpdatedDefaults(last.call)),
                                    MaxLoads + 1))

\* C13: after reinit_handlers(level) the handler set of `level` holds a
\* handler for every name of the options' <level>_handlers that constructs;
\* a name that does not construct is skipped and the others are still
\* registered; the alert set is not touched.
C13_ReinitHandlersRebuildsLevel ==
    (last.op = "reinit_handlers") =>
        /\ last.level \in DOMAIN handlers.m
        /\ \A name \in HandlerNames(Snapshot(heap, options), last.level) :
              RegistryGetOk(heap, options, name) => name \in handlers.m[last.level]
        /\ alerts = pre.alerts
        /\ NoLifecycleCall

\* C14: on shutdown (Reactor.stop) every alert of the active set receives
\* stop() and is discarded: afterwards no started alert is without a stop().
C14_StopStopsActiveAlerts ==
    (last.op = "stop") =>
        /\ \A i \in DOMAIN objs : objs[i].starts > 0 => objs[i].stops > 0
        /\ alerts = {}

\* C15: the period of the reset timer is the repeat_interval of the
\* configuration loaded at construction; a reinit, also one whose options
\* carry another repeat_interval, changes neither the period nor whether the
\* timer is running.
C15_ReinitLeavesTimer ==
    /\ []((last.op = "construct" /\ last.out.err = "" /\ ~last.out.hung) =>
            /\ callback.set
            /\ callback.period = ParseInterval(last.out.newOptions.m["repeat_interval"])
            /\ ~callback.running)
    /\ [][last'.op = "reinit" => callback' = callback]_vars

C15_Witness ==
    /\ last.op = "reinit"
    /\ last.out.err = ""
    /\ callback.running
    /\ callback.period = ParseInterval(TStr("2hour"))
    /\ Snapshot(heap, options).m["repeat_interval"] = TStr("1hour")

\* C16: after a reinit(overrides) that returns, the stored defaults are the
\* pre-call defaults updated key by key with the overrides, an `include`
\* override with its paths included, so that a later reinit() loads the same
\* files again.
C16_DefaultsKeepOverrides ==
    (last.op \in {"construct", "reinit"} /\ last.out.err = "" /\ ~last.out.hung) =>
        /\ Snapshot(heap, defaults) = UpdatedDefaults(last.call)
        /\ IncludeSeq(Snapshot(heap, defaults)) = IncludeSeq(UpdatedDefaults(last.call))

\* C17: whenever no operation of the reactor is in progress, the active alert
\* set is exactly the set of alerts that have received start() and have not
\* received stop().
C17_ActiveSetIsStartedNotStopped ==
    (phase \in {"ready", "stopped"}) =>
        alerts = {i \in DOMAIN objs : objs[i].starts > 0 /\ objs[i].stops = 0}

\* C18: a reinit that returns, made right after a construction or reinit that
\* returned with the same overrides and files, leaves the options equal by
\* value to what they were (a sequence such as critical_handlers does not
\* grow), and no load modifies the sequences of the class-level defaults.
C18_ReinitIdempotent ==
    /\ (last.op = "reinit" /\ last.out.err = "" /\ last.after = last.call) =>
          Snapshot(heap, options) = pre.options
    /\ (phase \in {"new", "ready", "failed", "hung", "stopped"}) =>
          Snapshot(heap, ClassDefaultsRef) = ClassDefaults

\* a file of the call, read by the load, is among the files it includes,
\* directly or through other files
IncludeCycle(c) ==
    \E p \in FilesRead(c) :
        /\ FileAt(CallFiles(c), p).kind = "ok"
        /\ p \in ReachFiles(CallFiles(c), IncludesOf(FileAt(CallFiles(c), p).tree), {})

\* The model lets a load read MaxLoads files; only a load whose include work
\* list can never drain needs more.
HungOnlyOnCycle ==
    (last.op \in {"construct", "reinit"} /\ last.out.hung) => IncludeCycle(last.call)

\* C19: for readable, well-formed config files load_configuration
\* terminates, also when files include each other cyclically or a file
\* includes itself.
C19_LoadTerminates ==
    (/\ last.op \in {"construct", "reinit"}
     /\ \A p \in FilesRead(last.call) :
           /\ FileAt(CallFiles(last.call), p).kind = "ok"
           /\ FileAt(CallFiles(last.call), p).tree.t = "dict") =>
        ~last.out.hung

\* the configuration lists the hipchat handler for some level and gives it
\* options with an api_version that is not supported
UnsupportedHipChat(tree) ==
    /\ tree.t = "dict"
    /\ \E i \in 1..3 : "hipchat" \in HandlerNames(tree, Levels[i])
    /\ "hipchat" \in DOMAIN tree.m
    /\ tree.m["hipchat"].t = "dict"
    /\ "api_version" \in DOMAIN tree.m["hipchat"].m
    /\ ~(/\ tree.m["hipchat"].m["api_version"].t = "i"
          /\ tree.m["hipchat"].m["api_version"].r \in SupportedApiVersions)

\* C20: a HipChat handler configured with an api_version other than 1 and 2
\* fails to initialise: a (re)init whose options ask for such a handler
\* raises no later than at the construction of that handler.
C20_UnsupportedApiVersionRejected ==
    (/\ last.op \in {"construct", "reinit"}
     /\ last.out.loaded
     /\ UnsupportedHipChat(last.out.newOptions)) =>
        last.out.err \in {"ValueError", "AlertError", "TypeError", "HandlerError"}


====
